---- MODULE Spec2Model ----
(***************************************************************************)
(* Model of the trading environment (main/TradingEnvironment.py, class     *)
(* TradingEnv) and of the tabular Q-learning bot (Ticker/Trader1.py, class *)
(* QLearningBot) together with the result cache that decorates            *)
(* get_q_value (upbit_quant/utils/decorators.py, cache_result).            *)
(*                                                                         *)
(* Numbers are exact rationals <<n, d>> with d > 0 in lowest terms, so the *)
(* arithmetic of the code is modelled without rounding; Decimal and float  *)
(* operands are not distinguished.                                         *)
(***************************************************************************)
EXTENDS Integers, Sequences, FiniteSets, TLC

----------------------------------------------------------------------------
(* Exact arithmetic *)

Abs(x) == IF x < 0 THEN -x ELSE x

RECURSIVE GCD(_, _)
GCD(a, b) == IF b = 0 THEN a ELSE GCD(b, a % b)

\* The rational n/d in lowest terms with a positive denominator (d # 0).
Frac(n, d) ==
    LET g == GCD(Abs(n), Abs(d))
        s == IF d < 0 THEN -1 ELSE 1
    IN  << (s * n) \div g, (s * d) \div g >>

R(n) == << n, 1 >>

RAdd(x, y) == Frac(x[1] * y[2] + y[1] * x[2], x[2] * y[2])
RSub(x, y) == Frac(x[1] * y[2] - y[1] * x[2], x[2] * y[2])
RMul(x, y) == Frac(x[1] * y[1], x[2] * y[2])
RDiv(x, y) == Frac(x[1] * y[2], x[2] * y[1])
RLt(x, y)  == x[1] * y[2] < y[1] * x[2]
RLe(x, y)  == x[1] * y[2] <= y[1] * x[2]
\* Python's min and max return the first of equal arguments.
RMin(x, y) == IF RLt(y, x) THEN y ELSE x
RMax(x, y) == IF RLt(x, y) THEN y ELSE x
RAbs(x)    == << Abs(x[1]), x[2] >>
\* int(x): truncation toward zero.
RInt(x)    == IF x[1] >= 0 THEN x[1] \div x[2] ELSE -((-x[1]) \div x[2])

Zero == R(0)

----------------------------------------------------------------------------
(* TradingEnv *)

VARIABLES
    prices,           \* self.prices, a sequence of rationals (1-based here)
    initial_balance,  \* self.initial_balance
    max_buy,          \* self.max_buy
    max_sell,         \* self.max_sell
    trading_fee,      \* self.trading_fee
    balance,          \* self.balance
    current_step,     \* self.current_step (0-based, as in the code)
    position_size,    \* self.position_size
    total_trades,     \* self.total_trades
    total_fees,       \* self.total_fees
    m_call,           \* the last call made on the environment and its outcome
    observation,      \* the observation returned by the last successful call
    history           \* the actions of the successful steps since the last reset

mvars == << prices, initial_balance, max_buy, max_sell, trading_fee, balance,
            current_step, position_size, total_trades, total_fees, m_call,
            observation, history >>

VARIABLES
    action_space,         \* self.action_space: [has_n, n]
    config,               \* self.config (QLearningConfig)
    state_bins,           \* self.state_bins
    q_table,              \* self.q_table: (discretized state, action) -> value
    experience_buffer,    \* self.experience_buffer
    training_episodes,    \* self.training_episodes
    total_reward,         \* self.total_reward
    performance_history,  \* self.performance_history
    cache,                \* the dict cache_result keeps for get_q_value
    now,                  \* time.time(), in seconds
    model_file,           \* what save_model has written, or NoFile
    calls,                \* the number of calls made on the bot
    a_call,               \* the last call made on the bot and its outcome
    fed                   \* the transitions of the updates that succeeded
                          \* since the experience buffer was last empty

avars == << action_space, config, state_bins, q_table, experience_buffer,
            training_episodes, total_reward, performance_history, cache, now,
            model_file, calls, a_call, fed >>

VARIABLES
    train                 \* the frame of train_episode: where it stands, its
                          \* locals, and how the last episode ended

tvars == << train >>

VARIABLES
    other,                \* a second QLearningBot of the same process: which
                          \* config object it holds, its table and its buffer
    cli,                  \* the frame of the command `train` of cli.py
    chunk_call            \* the last call of chunk_list and its outcome

VARIABLES
    divide_call,          \* the last call of safe_divide and its outcome
    retry,                \* the frame of a wrapper made by retry_on_failure
    legacy                \* the TradingEnv of main/Env.py

yvars == << divide_call, retry, legacy >>

xvars == << other, cli, chunk_call, yvars >>

vars == << mvars, avars, tvars, xvars >>

\* ActionType
HOLD == 0
BUY  == 1
SELL == 2

\* validate_positive_number accepts every number that is not negative.
validate_positive_number(value) == ~RLt(value, Zero)

\* _validate_prices accepts a non-empty list of positive numbers.
_validate_prices(ps) ==
    Len(ps) > 0 /\ { i \in 1..Len(ps) : ~RLt(Zero, ps[i]) } = {}

\* The parameter sets the environment is constructed with.
MkEnv(ps, ib, mb, ms, fee) ==
    [prices |-> ps, initial_balance |-> ib, max_buy |-> mb, max_sell |-> ms,
     trading_fee |-> fee]

EnvParams ==
    { MkEnv(<< R(100), R(110), R(105), R(120) >>, R(1000), R(100), R(100), Zero),
      MkEnv(<< R(2), R(3), R(1) >>, R(10), R(3), R(2), Frac(1, 10)),
      MkEnv(<< R(2), R(3), R(1) >>, R(12), R(5), R(5), Frac(3, 2)),
      MkEnv(<< R(2), R(3) >>, Zero, Zero, R(2), Zero),
      MkEnv(<< R(5) >>, R(10), R(5), R(5), Zero),
      MkEnv(<< R(2), R(3), R(1) >>, R(10), R(3), Zero, Zero),
      MkEnv(<< R(2), R(3) >>, Zero, Zero, Zero, Zero),
      MkEnv(<< >>, R(10), R(5), R(5), Zero),
      MkEnv(<< R(2), R(-1) >>, R(10), R(5), R(5), Zero),
      MkEnv(<< R(2), R(3) >>, R(10), R(5), R(5), Frac(-1, 10)) }

\* TradingEnv.__init__ raises ValidationError unless the validations hold,
\* and spaces.MultiDiscrete([3, max(max_buy, max_sell)]) raises unless the
\* larger of the two limits is positive.
EnvAccepted(p) ==
    /\ _validate_prices(p.prices)
    /\ validate_positive_number(p.initial_balance)
    /\ validate_positive_number(p.max_buy)
    /\ validate_positive_number(p.max_sell)
    /\ validate_positive_number(p.trading_fee)
    /\ RLt(Zero, RMax(p.max_buy, p.max_sell))

\* The action types and amounts a caller passes to step.
ActionTypes   == { 0, 1, 2, 3 }
ActionAmounts == { R(-1), Zero, R(2), R(5) }

NoObs == << >>
\* A call record: the operation, its arguments, whether it raised, what it
\* returned, and (dirty) whether the state it found differed from ResetState.
\* For reset, done tells whether the episode it ended was done.
Call(op, t, a, err, reward, done, traded, dirty) ==
    [op |-> op, action_type |-> t, action_amount |-> a, error |-> err,
     reward |-> reward, done |-> done, trade_executed |-> traded,
     dirty |-> dirty]

\* The result of _execute_buy and _execute_sell: the fields they assign and
\* the pair they return.
Exec(b, p, t, f, reward, traded) ==
    [balance |-> b, position_size |-> p, total_trades |-> t, total_fees |-> f,
     reward |-> reward, trade_executed |-> traded]

\* A step without a trade that still counts one.
NoTrade_Counted ==
    Exec(balance, position_size, total_trades + 1, total_fees, Zero, FALSE)

\* return 0.0, False: nothing is assigned.
NoTrade == Exec(balance, position_size, total_trades, total_fees, Zero, FALSE)

_execute_buy(amount, price) ==
    LET max_buyable   == RDiv(balance, price)
        actual_amount == RMin(RMin(amount, max_buyable), max_buy)
        cost          == RMul(actual_amount, price)
        fee           == RMul(cost, trading_fee)
        total_cost    == RAdd(cost, fee)
    IN  IF RLt(Zero, actual_amount) /\ RLe(total_cost, balance)
        THEN Exec(RSub(balance, total_cost), RAdd(position_size, actual_amount),
                  total_trades + 1, RAdd(total_fees, fee),
                  RMul(RMul(actual_amount, price), Frac(1, 100)), TRUE)
        ELSE NoTrade

\* An _execute_sell that does not add its fee to total_fees.
_execute_sell_FeeUncounted(amount, price) ==
    LET actual_amount == RMin(RMin(amount, position_size), max_sell)
        revenue       == RMul(actual_amount, price)
        fee           == RMul(revenue, trading_fee)
        net_revenue   == RSub(revenue, fee)
    IN  IF RLt(Zero, actual_amount)
        THEN Exec(RAdd(balance, net_revenue), RSub(position_size, actual_amount),
                  total_trades + 1, total_fees,
                  RMul(net_revenue, Frac(1, 100)), TRUE)
        ELSE NoTrade

_execute_sell(amount, price) ==
    LET actual_amount == RMin(RMin(amount, position_size), max_sell)
        revenue       == RMul(actual_amount, price)
        fee           == RMul(revenue, trading_fee)
        net_revenue   == RSub(revenue, fee)
    IN  IF RLt(Zero, actual_amount)
        THEN Exec(RAdd(balance, net_revenue), RSub(position_size, actual_amount),
                  total_trades + 1, RAdd(total_fees, fee),
                  RMul(net_revenue, Frac(1, 100)), TRUE)
        ELSE NoTrade

\* An _is_done that lets the step index run one further.
_is_done_OffByOne(bal, step, pos) ==
    \/ RLe(bal, Zero)
    \/ step >= Len(prices)
    \/ (RLe(pos, Zero) /\ RLe(bal, Zero))

\* _is_done, on the state after the action and the advance.
_is_done(bal, step, pos) ==
    \/ RLe(bal, Zero)
    \/ step >= Len(prices) - 1
    \/ (RLe(pos, Zero) /\ RLe(bal, Zero))

\* A step that reads the price after the advance instead.
CurrentPrice_Lookahead ==
    prices[(IF current_step + 1 < Len(prices) - 1
            THEN current_step + 1 ELSE Len(prices) - 1) + 1]

\* The price step reads before it executes the action: prices[current_step].
CurrentPrice == prices[current_step + 1]

\* A step that does not check the sign of the amount.
StepRaises_NoAmountCheck(action_type, action_amount) ==
    \/ action_type \notin { HOLD, BUY, SELL }
    \/ current_step >= Len(prices)

\* step raises before it changes anything: ActionType(action[0]) rejects an
\* unknown type, a negative amount is rejected, and prices[current_step]
\* raises IndexError once current_step has run past the series.
StepRaises(action_type, action_amount) ==
    \/ action_type \notin { HOLD, BUY, SELL }
    \/ RLt(action_amount, Zero)
    \/ current_step >= Len(prices)

\* TradingEnv.__init__ with the parameters p.
EnvInitWith(p) ==
    /\ EnvAccepted(p)
    /\ prices = p.prices
    /\ initial_balance = p.initial_balance
    /\ max_buy = p.max_buy
    /\ max_sell = p.max_sell
    /\ trading_fee = p.trading_fee
    /\ balance = initial_balance
    /\ current_step = 0
    /\ position_size = Zero
    /\ total_trades = 0
    /\ total_fees = Zero
    /\ m_call = Call("init", HOLD, Zero, FALSE, Zero, FALSE, FALSE, FALSE)
    /\ observation = NoObs
    /\ history = << >>

\* A reset that forgets the trade counter.
ResetState_KeepTrades ==
    [balance |-> initial_balance, current_step |-> 0, position_size |-> Zero,
     total_trades |-> total_trades, total_fees |-> Zero]

\* The state reset assigns.
ResetState ==
    [balance |-> initial_balance, current_step |-> 0, position_size |-> Zero,
     total_trades |-> 0, total_fees |-> Zero]

Dirty ==
    << balance, current_step, position_size, total_trades, total_fees >>
        # << ResetState.balance, ResetState.current_step,
             ResetState.position_size, ResetState.total_trades,
             ResetState.total_fees >>

\* The observation reset returns.
ResetObservation == << initial_balance, Zero, Zero, prices[1] >>

Reset ==
    /\ balance' = ResetState.balance
    /\ current_step' = ResetState.current_step
    /\ position_size' = ResetState.position_size
    /\ total_trades' = ResetState.total_trades
    /\ total_fees' = ResetState.total_fees
    /\ observation' = ResetObservation
    /\ m_call' = Call("reset", HOLD, Zero, FALSE, Zero,
                      _is_done(balance, current_step, position_size), FALSE, Dirty)
    /\ history' = << >>
    /\ UNCHANGED << prices, initial_balance, max_buy, max_sell, trading_fee >>
    /\ UNCHANGED avars

StepFail(action_type, action_amount) ==
    /\ StepRaises(action_type, action_amount)
    /\ m_call' = Call("step", action_type, action_amount, TRUE, Zero, FALSE, FALSE,
                     Dirty)
    /\ UNCHANGED << prices, initial_balance, max_buy, max_sell, trading_fee,
                    balance, current_step, position_size, total_trades,
                    total_fees, observation, history >>
    /\ UNCHANGED avars

StepOk(action_type, action_amount) ==
    /\ ~StepRaises(action_type, action_amount)
    /\ LET current_price == CurrentPrice
           e == IF action_type = BUY /\ RLt(Zero, balance)
                THEN _execute_buy(action_amount, current_price)
                ELSE IF action_type = SELL /\ RLt(Zero, position_size)
                THEN _execute_sell(action_amount, current_price)
                ELSE NoTrade
           next_step == current_step + 1
           last == Len(prices) - 1
           new_asset_value ==
               RMul(e.position_size,
                    prices[(IF next_step < last THEN next_step ELSE last) + 1])
       IN  /\ balance' = e.balance
           /\ position_size' = e.position_size
           /\ total_trades' = e.total_trades
           /\ total_fees' = e.total_fees
           /\ current_step' = next_step
           /\ observation' = << e.balance, new_asset_value, e.position_size,
                                current_price >>
           /\ m_call' = Call("step", action_type, action_amount, FALSE, e.reward,
                             _is_done(e.balance, next_step, e.position_size),
                             e.trade_executed, Dirty)
           /\ history' = Append(history, << action_type, action_amount >>)
    /\ UNCHANGED << prices, initial_balance, max_buy, max_sell, trading_fee >>
    /\ UNCHANGED avars

Step ==
    \E action_type \in ActionTypes, action_amount \in ActionAmounts :
        \/ StepFail(action_type, action_amount)
        \/ StepOk(action_type, action_amount)


----------------------------------------------------------------------------
(* QLearningBot and the cache of get_q_value *)

\* @cache_result(ttl=60) on get_q_value.
CacheTTL == 60

\* A component of an observation that is NaN or infinite is written with a
\* zero denominator.
NaN == << 0, 0 >>
Inf == << 1, 0 >>
NonFinite == { NaN, Inf }

\* The observations handed to the bot: [balance, asset_value, position_size,
\* current_price].
ObsA   == << Frac(1, 4), Zero, Zero, R(3) >>
ObsB   == << Frac(1, 2), Zero, Zero, R(3) >>
ObsC   == << R(-1), Zero, Zero, R(100) >>
ObsNaN == << NaN, Frac(1, 2), Zero, R(3) >>
Observations == { ObsA, ObsB, ObsC, ObsNaN }

\* The inputs of update and get_q_value.
TrainStates  == { ObsA, ObsB }
TrainActions == { 0, 1 }
Rewards      == { R(1) }
\* The observations handed to get_action.
ActStates    == { ObsA, ObsNaN }

\* int(value * self.state_bins) raises on NaN and on infinity; the handler
\* then returns the all-zero tuple.
_discretize_state(state, bins) ==
    IF \E i \in 1..Len(state) : state[i] \in NonFinite
    THEN [i \in 1..Len(state) |-> 0]
    ELSE [i \in 1..Len(state) |->
            LET scaled    == RInt(RMul(state[i], R(bins)))
                bin_index == IF bins - 1 < scaled THEN bins - 1 ELSE scaled
            IN  IF 0 < bin_index THEN bin_index ELSE 0]

\* self.q_table.get((discretized_state, action), 0.0)
TableGet(table, dstate, action) ==
    IF << dstate, action >> \in DOMAIN table
    THEN table[<< dstate, action >>]
    ELSE Zero

\* The undecorated get_q_value.
get_q_value(table, state, action) ==
    TableGet(table, _discretize_state(state, state_bins), action)

\* cache_result keys an entry by str(args): the bot, the state and the action.
CacheKey(state, action) == << state, action >>

\* An entry answers while time.time() - timestamp < ttl.
CacheHit(c, key) == key \in DOMAIN c /\ now - c[key].timestamp < CacheTTL

\* What the decorated get_q_value returns.
CachedValue(c, table, state, action) ==
    IF CacheHit(c, CacheKey(state, action))
    THEN c[CacheKey(state, action)].result
    ELSE get_q_value(table, state, action)

\* The cache after the decorated get_q_value has been called once for each
\* of the given (state, action) pairs, against the same table.
RECURSIVE CacheAfter(_, _, _)
CacheAfter(c, table, pairs) ==
    IF pairs = << >> THEN c
    ELSE LET state  == Head(pairs)[1]
             action == Head(pairs)[2]
             key    == CacheKey(state, action)
             c1     == IF CacheHit(c, key) THEN c
                       ELSE (key :> [result |-> get_q_value(table, state, action),
                                     timestamp |-> now]) @@ c
         IN  CacheAfter(c1, table, Tail(pairs))

\* [(state, a) for a in range(self.action_space.n)]
AllActions(state) == [i \in 1..action_space.n |-> << state, i - 1 >>]

\* range(self.action_space.n) raises AttributeError when the space has no n;
\* max and argmax of an empty list raise ValueError.
EvaluationRaises == ~action_space.has_n \/ action_space.n = 0

RECURSIVE RMaxSeq(_)
RMaxSeq(xs) == IF Len(xs) = 1 THEN xs[1] ELSE RMax(xs[1], RMaxSeq(Tail(xs)))

\* np.argmax: the first index holding the largest value (0-based).
ArgMax(xs) ==
    CHOOSE i \in 0..(Len(xs) - 1) :
        /\ \A j \in 1..Len(xs) : RLe(xs[j], xs[i + 1])
        /\ \A j \in 1..i : RLt(xs[j], xs[i + 1])

\* No file written yet, and a call without a state or a result.
NoFile == << >>
NoResult == << >>
ACall(op, state, action, reward, next_state, err, fallback, result) ==
    [op |-> op, state |-> state, action |-> action, reward |-> reward,
     next_state |-> next_state, error |-> err, fallback |-> fallback,
     result |-> result]

MkConfig(alpha, gamma, epsilon, epsilon_decay, epsilon_min, memory_size) ==
    [alpha |-> alpha, gamma |-> gamma, epsilon |-> epsilon,
     epsilon_decay |-> epsilon_decay, epsilon_min |-> epsilon_min,
     memory_size |-> memory_size]

\* The frame of train_episode: pc is the statement it stands at ("idle" when
\* no episode runs), outcome tells how the last episode ended ("none",
\* "returned", "raised"), metrics is what it returned, and episodes counts
\* the train_episode calls made.
Frame(pc, episode_reward, step_count, done, outcome, metrics, episodes) ==
    [pc |-> pc, episode_reward |-> episode_reward, step_count |-> step_count,
     done |-> done, outcome |-> outcome, metrics |-> metrics,
     episodes |-> episodes]
Idle(outcome, metrics, episodes) ==
    Frame("idle", Zero, 0, FALSE, outcome, metrics, episodes)

MkBot(space, cfg, bins) == [action_space |-> space, config |-> cfg, state_bins |-> bins]

Discrete(n) == [has_n |-> TRUE, n |-> n]
\* A space without the attribute n (MultiDiscrete, None).
NoN == [has_n |-> FALSE, n |-> 0]

\* The arguments the bot is constructed with.
BotParams ==
    { MkBot(Discrete(3), MkConfig(Frac(1, 2), Zero, Zero, Frac(1, 2), Frac(1, 100), 2), 2),
      MkBot(Discrete(3), MkConfig(R(1), Frac(1, 2), Frac(1, 10), Frac(1, 2), Zero, 2), 2),
      MkBot(Discrete(3), MkConfig(Frac(1, 2), Frac(1, 2), R(1), R(1), Zero, 1), 0),
      MkBot(NoN, MkConfig(Frac(1, 2), Zero, Zero, Frac(1, 2), Frac(1, 100), 2), 2),
      MkBot(Discrete(3), MkConfig(R(-1), Zero, Zero, Frac(1, 2), Zero, 2), 2) }

\* QLearningBot.__init__ raises ValidationError unless all of these hold.
BotAccepted(p) ==
    /\ validate_positive_number(R(p.state_bins))
    /\ validate_positive_number(p.config.alpha)
    /\ validate_positive_number(p.config.gamma)
    /\ validate_positive_number(p.config.epsilon)

\* QLearningBot.__init__ with the parameters p.
BotInitWith(p) ==
    /\ BotAccepted(p)
    /\ action_space = p.action_space
    /\ config = p.config
    /\ state_bins = p.state_bins
    /\ q_table = << >>
    /\ experience_buffer = << >>
    /\ training_episodes = 0
    /\ total_reward = Zero
    /\ performance_history = << >>
    /\ cache = << >>
    /\ now = 0
    /\ model_file = NoFile
    /\ calls = 0
    /\ a_call = ACall("init", NoResult, 0, Zero, NoResult, FALSE, FALSE, NoResult)
    /\ fed = << >>
    /\ train = Idle("none", NoResult, 0)

\* How far the model lets the clock and the call counters run.
TickStep   == 30
MaxTime    == 60
MaxCalls   == 3
MaxReloadCalls == 5

\* The amounts random.randint(1, 100) and random.randint(1, 50) are drawn from.
ExploreAmounts == { 1, 100 }
ExploitAmounts == { 1, 50 }

Tick ==
    /\ now + TickStep <= MaxTime
    /\ now' = now + TickStep
    /\ UNCHANGED << action_space, config, state_bins, q_table, experience_buffer,
                    training_episodes, total_reward, performance_history, cache,
                    model_file, calls, a_call >>
    /\ UNCHANGED << fed, mvars, tvars >>

\* A call of the decorated get_q_value.
GetQValue(state, action) ==
    /\ calls' = calls + 1
    /\ a_call' = ACall("get", state, action, Zero, NoResult, FALSE, FALSE,
                       CachedValue(cache, q_table, state, action))
    /\ cache' = CacheAfter(cache, q_table, << << state, action >> >>)
    /\ UNCHANGED << action_space, config, state_bins, q_table, experience_buffer,
                    training_episodes, total_reward, performance_history, now,
                    model_file >>
    /\ UNCHANGED << fed, mvars, tvars >>

\* new_q = current_q + alpha * (reward + gamma * max_q_next_state - current_q)
NewQ(current_q, reward, max_q_next_state) ==
    LET target_q == RAdd(reward, RMul(config.gamma, max_q_next_state))
    IN  RAdd(current_q, RMul(config.alpha, RSub(target_q, current_q)))

\* A buffer that evicts only once it is two over its capacity.
Remember_EvictLate(buffer, experience) ==
    LET appended == Append(buffer, experience)
    IN  IF Len(appended) > config.memory_size + 1 THEN Tail(appended) ELSE appended

\* self.experience_buffer.append(...); pop(0) when it is over memory_size.
Remember(buffer, experience) ==
    LET appended == Append(buffer, experience)
    IN  IF Len(appended) > config.memory_size THEN Tail(appended) ELSE appended

\* An assignment that builds the table anew from the one entry.
Store_Replace(table, key, value) == key :> value

\* self.q_table[(discretized_state, action)] = new_q
Store(table, key, value) == (key :> value) @@ table

\* An update that logs the transition before it raises.
UpdateRaised_Logged(state, action, reward, next_state) ==
    /\ a_call' = ACall("update", state, action, reward, next_state, TRUE,
                       FALSE, NoResult)
    /\ experience_buffer' =
          Remember(experience_buffer, << state, action, reward, next_state >>)
    /\ UNCHANGED << q_table, total_reward, cache, fed >>

\* range(self.action_space.n) or max([]) raises before the table is
\* written; the handler logs and raises TradingError.
UpdateRaised(state, action, reward, next_state) ==
    /\ a_call' = ACall("update", state, action, reward, next_state, TRUE,
                       FALSE, NoResult)
    /\ UNCHANGED << q_table, experience_buffer, total_reward, cache, fed >>

UpdateQValue(state, action, reward, next_state) ==
    /\ calls' = calls + 1
    /\ IF EvaluationRaises
       THEN UpdateRaised(state, action, reward, next_state)
       ELSE LET discretized_state == _discretize_state(state, state_bins)
                next_values == [i \in 1..action_space.n |->
                                  CachedValue(cache, q_table, next_state, i - 1)]
                max_q_next_state == RMaxSeq(next_values)
                cache1    == CacheAfter(cache, q_table, AllActions(next_state))
                current_q == CachedValue(cache1, q_table, state, action)
                new_q     == NewQ(current_q, reward, max_q_next_state)
                experience == << state, action, reward, next_state >>
            IN  /\ q_table' = Store(q_table, << discretized_state, action >>, new_q)
                /\ experience_buffer' = Remember(experience_buffer, experience)
                /\ fed' = Append(fed, experience)
                /\ total_reward' = RAdd(total_reward, reward)
                /\ cache' = CacheAfter(cache1, q_table, << << state, action >> >>)
                /\ a_call' = ACall("update", state, action, reward, next_state,
                                   FALSE, FALSE, new_q)
    /\ UNCHANGED << action_space, config, state_bins, training_episodes,
                    performance_history, now, model_file >>
    /\ UNCHANGED mvars

\* A get_action whose handler raises again instead of returning.
get_action_handler_Reraise(raised, action) ==
    [error |-> raised, fallback |-> raised,
     result |-> IF raised THEN NoResult ELSE action]

\* The except clause of get_action: an exception raised in the body is
\* logged and the safe action [0, 0] is returned.
get_action_handler(raised, action) ==
    [error |-> FALSE, fallback |-> raised,
     result |-> IF raised THEN << HOLD, 0 >> ELSE action]

\* An action array with the amount negated.
ActionArray_Negative(best_action, amount) ==
    IF best_action = 0 THEN << HOLD, 0 >>
    ELSE IF best_action = 1 THEN << BUY, 0 - amount >>
    ELSE << SELL, 0 - amount >>

\* The action array built from the best action index.
ActionArray(best_action, amount) ==
    IF best_action = 0 THEN << HOLD, 0 >>
    ELSE IF best_action = 1 THEN << BUY, amount >>
    ELSE << SELL, amount >>

\* random.uniform(0, 1) lies in [0, 1): some draw is below epsilon iff
\* epsilon > 0, and some draw is not below it iff epsilon < 1.
GetActionExplore(state) ==
    /\ RLt(Zero, config.epsilon)
    /\ \E action_type \in { HOLD, BUY, SELL }, action_amount \in ExploreAmounts :
          LET out == get_action_handler(FALSE, << action_type, action_amount >>)
          IN  a_call' = ACall("get_action", state, 0, Zero, NoResult, out.error,
                              out.fallback, out.result)
    /\ UNCHANGED cache

GetActionExploit(state) ==
    /\ RLt(config.epsilon, R(1))
    /\ IF EvaluationRaises
       THEN LET out == get_action_handler(TRUE, NoResult)
            IN  /\ a_call' = ACall("get_action", state, 0, Zero, NoResult,
                                   out.error, out.fallback, out.result)
                /\ UNCHANGED cache
       ELSE LET q_values == [i \in 1..action_space.n |->
                               CachedValue(cache, q_table, state, i - 1)]
                best_action == ArgMax(q_values)
            IN  /\ \E amount \in ExploitAmounts :
                      LET out == get_action_handler(
                                     FALSE, ActionArray(best_action, amount))
                      IN  a_call' = ACall("get_action", state, 0, Zero, NoResult,
                                          out.error, out.fallback, out.result)
                /\ cache' = CacheAfter(cache, q_table, AllActions(state))

GetAction(state) ==
    /\ calls' = calls + 1
    /\ GetActionExplore(state) \/ GetActionExploit(state)
    /\ UNCHANGED << action_space, config, state_bins, q_table, experience_buffer,
                    training_episodes, total_reward, performance_history, now,
                    model_file >>
    /\ UNCHANGED << fed, mvars >>

\* max(epsilon_min, epsilon * epsilon_decay)
DecayedEpsilon == RMax(config.epsilon_min, RMul(config.epsilon, config.epsilon_decay))

DecayEpsilon ==
    /\ calls' = calls + 1
    /\ config' = [config EXCEPT !.epsilon = DecayedEpsilon]
    /\ a_call' = ACall("decay", NoResult, 0, Zero, NoResult, FALSE, FALSE, NoResult)
    /\ UNCHANGED << action_space, state_bins, q_table, experience_buffer,
                    training_episodes, total_reward, performance_history, cache,
                    now, model_file >>
    /\ UNCHANGED << fed, mvars, tvars >>

\* QLearningBot.reset: the cache of get_q_value is not touched.
ResetBot ==
    /\ calls' = calls + 1
    /\ q_table' = << >>
    /\ experience_buffer' = << >>
    /\ training_episodes' = 0
    /\ total_reward' = Zero
    /\ performance_history' = << >>
    /\ config' = [config EXCEPT !.epsilon = Frac(1, 10)]
    /\ a_call' = ACall("reset", NoResult, 0, Zero, NoResult, FALSE, FALSE, NoResult)
    /\ UNCHANGED << action_space, state_bins, cache, now, model_file >>
    /\ fed' = << >>
    /\ UNCHANGED << mvars, tvars >>

\* The dictionary save_model pickles.
ModelData ==
    [q_table |-> q_table, config |-> config,
     training_episodes |-> training_episodes, total_reward |-> total_reward,
     performance_history |-> performance_history]

SaveModel ==
    /\ calls' = calls + 1
    /\ model_file' = << ModelData >>
    /\ a_call' = ACall("save", NoResult, 0, Zero, NoResult, FALSE, FALSE, NoResult)
    /\ UNCHANGED << action_space, config, state_bins, q_table, experience_buffer,
                    training_episodes, total_reward, performance_history, cache,
                    now >>
    /\ UNCHANGED << fed, mvars, tvars >>

\* The keys load_model reads from the snapshot, in the order it assigns them.
SnapshotFields ==
    << "q_table", "config", "training_episodes", "total_reward",
       "performance_history" >>

\* The snapshots found at the path that save_model did not write: the
\* current model data with only some of its keys.
SnapshotKeys ==
    { {},
      { "q_table", "config" },
      { "config", "training_episodes", "total_reward", "performance_history" },
      { "q_table", "config", "training_episodes", "total_reward" } }

ForeignSnapshot(keys) ==
    /\ model_file' = << [k \in keys |-> ModelData[k]] >>
    /\ model_file' # model_file
    /\ UNCHANGED << action_space, config, state_bins, q_table, experience_buffer,
                    training_episodes, total_reward, performance_history, cache,
                    now, calls, a_call >>
    /\ UNCHANGED << fed, mvars, tvars >>

\* model_data[key] raises KeyError at the first key the snapshot lacks: the
\* i-th assignment is reached when the keys before it and its own are there.
LoadReached(data, i) == \A j \in 1..i : SnapshotFields[j] \in DOMAIN data

\* load_model: open raises when there is no file; otherwise the five fields
\* are assigned from the snapshot one after the other, until a key is missing.
LoadModel ==
    /\ calls' = calls + 1
    /\ IF model_file = NoFile
       THEN /\ a_call' = ACall("load", NoResult, 0, Zero, NoResult, TRUE, FALSE,
                               NoResult)
            /\ UNCHANGED << q_table, config, training_episodes, total_reward,
                            performance_history >>
       ELSE LET data == model_file[1]
            IN  /\ q_table' = IF LoadReached(data, 1)
                              THEN data.q_table ELSE q_table
                /\ config' = IF LoadReached(data, 2)
                             THEN data.config ELSE config
                /\ training_episodes' = IF LoadReached(data, 3)
                                        THEN data.training_episodes
                                        ELSE training_episodes
                /\ total_reward' = IF LoadReached(data, 4)
                                   THEN data.total_reward ELSE total_reward
                /\ performance_history' = IF LoadReached(data, 5)
                                          THEN data.performance_history
                                          ELSE performance_history
                /\ a_call' = ACall("load", NoResult, 0, Zero, NoResult,
                                   ~LoadReached(data, 5), FALSE, NoResult)
    /\ UNCHANGED << action_space, state_bins, experience_buffer, cache, now,
                    model_file >>
    /\ UNCHANGED << fed, mvars, tvars >>

\* Every call the model allows on the bot, within the call budget.
BotNext ==
    \/ Tick /\ UNCHANGED xvars
    \/ \E state \in TrainStates, action \in TrainActions :
          calls < MaxCalls /\ GetQValue(state, action) /\ UNCHANGED xvars
    \/ \E state \in TrainStates, action \in TrainActions, reward \in Rewards,
          next_state \in TrainStates :
          /\ calls < MaxCalls
          /\ UpdateQValue(state, action, reward, next_state)
          /\ UNCHANGED << tvars, xvars >>
    \/ \E state \in ActStates :
          calls < MaxCalls /\ GetAction(state) /\ UNCHANGED << tvars, xvars >>
    \/ calls < MaxCalls /\ DecayEpsilon /\ UNCHANGED xvars
    \/ calls < MaxCalls /\ ResetBot /\ UNCHANGED xvars
    \/ calls < MaxCalls /\ SaveModel /\ UNCHANGED xvars
    \/ calls < MaxCalls /\ LoadModel /\ UNCHANGED xvars

\* A bot that is saved, trained, asked for actions and loaded again.
ReloadNext ==
    \/ Tick /\ UNCHANGED xvars
    \/ \E action \in TrainActions :
          /\ calls < MaxReloadCalls
          /\ UpdateQValue(ObsA, action, R(1), ObsA)
          /\ UNCHANGED << tvars, xvars >>
    \/ \E state \in { ObsA, ObsC } :
          /\ calls < MaxReloadCalls
          /\ GetAction(state)
          /\ UNCHANGED << tvars, xvars >>
    \/ calls < MaxReloadCalls /\ SaveModel /\ UNCHANGED xvars
    \/ calls < MaxReloadCalls /\ LoadModel /\ UNCHANGED xvars

\* while not done and step_count < 1000
StepCeiling == 1000
LoopContinues(done, step_count) == ~done /\ step_count < StepCeiling

\* How many times the model lets train_episode be called.
MaxEpisodes == 2

\* state = env.reset(); done = False; episode_reward = 0.0; step_count = 0
TrainStart ==
    /\ train.pc = "idle"
    /\ train.episodes < MaxEpisodes
    /\ Reset
    /\ train' = Frame(IF LoopContinues(FALSE, 0) THEN "act" ELSE "finish",
                      Zero, 0, FALSE, "running", NoResult, train.episodes + 1)

\* A loop that hands get_action the observation of the reset every time.
TrainAct_StaleState ==
    /\ train.pc = "act"
    /\ GetAction(ResetObservation)
    /\ train' = [train EXCEPT !.pc = "step"]

\* action = self.get_action(state), the state being the last observation.
TrainAct ==
    /\ train.pc = "act"
    /\ GetAction(observation)
    /\ train' = [train EXCEPT !.pc = "step"]

\* next_state, reward, done, info = env.step(action); a TradingError raised
\* by step ends train_episode.
TrainStep ==
    /\ train.pc = "step"
    /\ LET action_type   == a_call.result[1]
           action_amount == R(a_call.result[2])
       IN  IF StepRaises(action_type, action_amount)
           THEN /\ StepFail(action_type, action_amount)
                /\ train' = [train EXCEPT !.pc = "idle", !.outcome = "raised"]
           ELSE /\ StepOk(action_type, action_amount)
                /\ train' = [train EXCEPT !.pc = "learn", !.done = m_call'.done]

\* self.update(state, action, reward, next_state); state = next_state;
\* episode_reward += reward; step_count += 1; then the loop test. A
\* TradingError raised by update_q_value ends train_episode.
TrainLearn ==
    /\ train.pc = "learn"
    /\ UpdateQValue(a_call.state, a_call.result[1], m_call.reward, observation)
    /\ train' =
          IF a_call'.error
          THEN [train EXCEPT !.pc = "idle", !.outcome = "raised"]
          ELSE [train EXCEPT
                  !.episode_reward = RAdd(@, m_call.reward),
                  !.step_count = @ + 1,
                  !.pc = IF LoopContinues(train.done, train.step_count + 1)
                         THEN "act" ELSE "finish"]

\* A record that holds the epsilon of before the decay.
EpisodeMetrics_StaleEpsilon ==
    [episode |-> training_episodes + 1, reward |-> train.episode_reward,
     steps |-> train.step_count, epsilon |-> config.epsilon,
     q_table_size |-> Cardinality(DOMAIN q_table)]

\* The record train_episode appends and returns.
EpisodeMetrics ==
    [episode |-> training_episodes + 1, reward |-> train.episode_reward,
     steps |-> train.step_count, epsilon |-> DecayedEpsilon,
     q_table_size |-> Cardinality(DOMAIN q_table)]

\* self.decay_epsilon(); self.training_episodes += 1; the metrics are
\* appended to performance_history and returned.
TrainFinish ==
    /\ train.pc = "finish"
    /\ config' = [config EXCEPT !.epsilon = DecayedEpsilon]
    /\ training_episodes' = training_episodes + 1
    /\ performance_history' = Append(performance_history, EpisodeMetrics)
    /\ train' = [train EXCEPT !.pc = "idle", !.outcome = "returned",
                              !.metrics = EpisodeMetrics]
    /\ UNCHANGED << action_space, state_bins, q_table, experience_buffer,
                    total_reward, cache, now, model_file, calls, a_call, fed >>
    /\ UNCHANGED mvars

\* A series on which no step returns done before the step ceiling.
LongPrices == [i \in 1..(StepCeiling + 2) |-> R(1)]

\* The environments and bots train_episode is run on: a short series with
\* an exploring bot, the same with the action space of the command line,
\* an environment without balance, and the long series with a bot that
\* never explores.
TrainParams ==
    { [env |-> MkEnv(<< R(2), R(3), R(1) >>, R(10), R(3), R(2), Frac(1, 10)),
       bot |-> MkBot(Discrete(3), MkConfig(Frac(1, 2), Frac(1, 2), Frac(1, 10),
                                           Frac(1, 2), Frac(1, 100), 2), 2)],
      [env |-> MkEnv(<< R(2), R(3), R(1) >>, R(10), R(3), R(2), Frac(1, 10)),
       bot |-> MkBot(NoN, MkConfig(Frac(1, 2), Frac(3, 5), Frac(1, 10),
                                   Frac(199, 200), Frac(1, 100), 2), 2)],
      [env |-> MkEnv(<< R(2), R(3) >>, Zero, Zero, R(2), Zero),
       bot |-> MkBot(Discrete(3), MkConfig(Frac(1, 2), Frac(1, 2), Frac(1, 10),
                                           Frac(1, 2), Frac(1, 100), 2), 2)],
      [env |-> MkEnv(LongPrices, R(10), R(3), R(2), Zero),
       bot |-> MkBot(Discrete(3), MkConfig(Frac(1, 2), Frac(1, 2), Zero,
                                           Frac(1, 2), Zero, 2), 2)] }

TrainNext ==
    \/ TrainStart /\ UNCHANGED xvars
    \/ TrainAct /\ UNCHANGED xvars
    \/ TrainStep /\ UNCHANGED xvars
    \/ TrainLearn /\ UNCHANGED xvars
    \/ TrainFinish /\ UNCHANGED xvars

\* The bots whose experience buffer is fed: capacities 3 and 1, and a bot
\* whose updates raise.
BufferParams ==
    { MkBot(Discrete(3), MkConfig(Frac(1, 2), Zero, Zero, Frac(1, 2), Frac(1, 100), 3), 2),
      MkBot(Discrete(3), MkConfig(Frac(1, 2), Frac(1, 2), Frac(1, 2), Frac(1, 2), Zero, 1), 2),
      MkBot(NoN, MkConfig(Frac(1, 2), Zero, Zero, Frac(1, 2), Frac(1, 100), 3), 2) }

\* How many calls the model lets a bot with a buffer receive.
MaxBufferCalls == 5

\* A bot that is updated again and again, and reset now and then.
BufferNext ==
    \/ \E state \in TrainStates, action \in TrainActions :
          /\ calls < MaxBufferCalls
          /\ UpdateQValue(state, action, R(1), ObsA)
          /\ UNCHANGED << tvars, xvars >>
    \/ calls < MaxBufferCalls /\ ResetBot /\ UNCHANGED xvars

\* How many calls the model lets the bot receive between snapshots.
MaxSnapshotCalls == 4

\* A bot that is trained and decayed, saved, and loaded from the snapshot
\* found at the path, written by save_model or not.
SnapshotNext ==
    \/ \E action \in TrainActions :
          /\ calls < MaxSnapshotCalls
          /\ UpdateQValue(ObsA, action, R(1), ObsA)
          /\ UNCHANGED << tvars, xvars >>
    \/ calls < MaxSnapshotCalls /\ DecayEpsilon /\ UNCHANGED xvars
    \/ calls < MaxSnapshotCalls /\ SaveModel /\ UNCHANGED xvars
    \/ calls < MaxSnapshotCalls /\ LoadModel /\ UNCHANGED xvars
    \/ \E keys \in SnapshotKeys : ForeignSnapshot(keys) /\ UNCHANGED xvars

\* The configurations decay_epsilon is run on: epsilon in [0, 1],
\* epsilon_decay in (0, 1], epsilon_min >= 0.
DecayParams ==
    { MkBot(Discrete(3), MkConfig(Frac(1, 2), Zero, Frac(1, 10), Frac(1, 2), Frac(1, 100), 2), 2),
      MkBot(Discrete(3), MkConfig(Frac(1, 2), Zero, R(1), R(1), Zero, 2), 2),
      MkBot(Discrete(3), MkConfig(Frac(1, 2), Zero, Zero, Frac(1, 2), Frac(1, 100), 2), 2),
      MkBot(Discrete(3), MkConfig(Frac(1, 2), Zero, Frac(1, 2), Frac(1, 2), Frac(1, 8), 2), 2),
      MkBot(Discrete(3), MkConfig(Frac(1, 2), Zero, R(1), Frac(1, 2), Frac(1, 4), 2), 2),
      MkBot(Discrete(3), MkConfig(Frac(1, 2), Zero, Frac(1, 4), Frac(1, 4), Frac(1, 4), 2), 2),
      MkBot(Discrete(3), MkConfig(Frac(1, 2), Zero, Frac(1, 2), Frac(1, 4), Frac(1, 100), 2), 2),
      MkBot(Discrete(3), MkConfig(Frac(1, 2), Zero, R(-1), Frac(1, 2), Zero, 2), 2) }

\* How many times the model lets decay_epsilon be called.
MaxDecayCalls == 6

\* A bot whose exploration rate is decayed again and again.
DecayCall == calls < MaxDecayCalls /\ DecayEpsilon /\ UNCHANGED xvars
DecayNext ==
    \/ Tick /\ UNCHANGED xvars
    \/ DecayCall

----------------------------------------------------------------------------
(* Two QLearningBots in one process *)

\* No second bot has been constructed.
NoOther ==
    [config_ref |-> "none", own_config |-> << >>, q_table |-> << >>,
     experience_buffer |-> << >>]

\* The second bot after QLearningBot(action_space, cfg): self.config = config
\* keeps the object it is given, so cfg is either the object the first bot
\* was constructed from ("same") or another object of equal value ("own").
OtherBot(ref) ==
    [config_ref |-> ref, own_config |-> IF ref = "own" THEN config ELSE << >>,
     q_table |-> << >>, experience_buffer |-> << >>]

\* The config object the second bot reads.
OtherConfig == IF other.config_ref = "same" THEN config ELSE other.own_config

\* load_model on the first bot binds its self.config to the unpickled object;
\* the second bot keeps the object it held.
PairLoad ==
    /\ LoadModel
    /\ other' = IF /\ other.config_ref = "same"
                   /\ model_file # NoFile
                   /\ LoadReached(model_file[1], 2)
                THEN [other EXCEPT !.config_ref = "own", !.own_config = config]
                ELSE other
    /\ UNCHANGED << cli, chunk_call, yvars >>

\* How many calls the model lets the first bot receive next to the second.
MaxPairCalls == 3

\* The first bot is trained, decayed, reset, saved and loaded; the second
\* bot receives no call.
PairNext ==
    \/ \E action \in TrainActions :
          /\ calls < MaxPairCalls
          /\ UpdateQValue(ObsA, action, R(1), ObsA)
          /\ UNCHANGED << tvars, xvars >>
    \/ calls < MaxPairCalls /\ DecayEpsilon /\ UNCHANGED xvars
    \/ calls < MaxPairCalls /\ ResetBot /\ UNCHANGED xvars
    \/ calls < MaxPairCalls /\ SaveModel /\ UNCHANGED xvars
    \/ calls < MaxPairCalls /\ PairLoad

----------------------------------------------------------------------------
(* cli.py: the command train *)

\* No command runs.
NoRun == [pc |-> "none", episodes |-> 0, attempted |-> 0]

\* The command after its setup (lines 62-73): the environment and the bot
\* are constructed and the loop over range(episodes) is about to start.
CliRun(episodes) == [pc |-> "loop", episodes |-> episodes, attempted |-> 0]

\* The values of the option --episodes.
CliEpisodes == 0..MaxEpisodes

\* for episode in range(episodes): bot.train_episode(env), entered.
CliEpisode ==
    /\ cli.pc = "loop"
    /\ train.outcome # "raised"
    /\ cli.attempted < cli.episodes
    /\ TrainStart
    /\ cli' = [cli EXCEPT !.attempted = @ + 1]
    /\ UNCHANGED << other, chunk_call, yvars >>

\* except Exception as e: raise click.ClickException: an exception that
\* train_episode lets through ends the command.
CliRaise ==
    /\ cli.pc = "loop"
    /\ train.pc = "idle" /\ train.outcome = "raised"
    /\ cli' = [cli EXCEPT !.pc = "failed"]
    /\ UNCHANGED << mvars, avars, tvars, other, chunk_call, yvars >>

\* The loop is exhausted; the final performance is logged.
CliDone ==
    /\ cli.pc = "loop"
    /\ train.pc = "idle" /\ train.outcome # "raised"
    /\ cli.attempted = cli.episodes
    /\ cli' = [cli EXCEPT !.pc = "completed"]
    /\ UNCHANGED << mvars, avars, tvars, other, chunk_call, yvars >>

CliNext ==
    \/ CliEpisode
    \/ cli.pc = "loop" /\ TrainAct /\ UNCHANGED xvars
    \/ cli.pc = "loop" /\ TrainStep /\ UNCHANGED xvars
    \/ cli.pc = "loop" /\ TrainLearn /\ UNCHANGED xvars
    \/ cli.pc = "loop" /\ TrainFinish /\ UNCHANGED xvars
    \/ CliRaise
    \/ CliDone

----------------------------------------------------------------------------
(* helpers.py: chunk_list *)

\* No call of chunk_list has been made.
NoChunk ==
    [op |-> "init", lst |-> << >>, chunk_size |-> 0, error |-> FALSE,
     result |-> << >>]

\* The lists and the chunk sizes chunk_list is called with.
MaxLen == 3
Items  == { 1, 2, 3 }
Lists  == UNION { [1..n -> Items] : n \in 0..MaxLen }
Sizes  == -1..(MaxLen + 1)

\* A chunk_list that leaves out a last chunk shorter than chunk_size.
chunk_list_DropTail(lst, chunk_size) ==
    IF chunk_size <= 0
    THEN [error |-> TRUE, result |-> << >>]
    ELSE LET count == Len(lst) \div chunk_size
         IN  [error |-> FALSE,
              result |-> [k \in 1..count |->
                            SubSeq(lst, (k - 1) * chunk_size + 1, k * chunk_size)]]

\* chunk_list: ValidationError when chunk_size <= 0; otherwise the slices
\* lst[i:i + chunk_size] for i in range(0, len(lst), chunk_size), a slice
\* ending where the list ends.
chunk_list(lst, chunk_size) ==
    IF chunk_size <= 0
    THEN [error |-> TRUE, result |-> << >>]
    ELSE LET starts == { i \in 0..(Len(lst) - 1) : i % chunk_size = 0 }
             count  == Cardinality(starts)
             stop(k) == IF k * chunk_size < Len(lst) THEN k * chunk_size
                        ELSE Len(lst)
         IN  [error |-> FALSE,
              result |-> [k \in 1..count |->
                            SubSeq(lst, (k - 1) * chunk_size + 1, stop(k))]]

ChunkList(lst, chunk_size) ==
    LET out == chunk_list(lst, chunk_size)
    IN  /\ chunk_call' = [op |-> "chunk_list", lst |-> lst,
                          chunk_size |-> chunk_size, error |-> out.error,
                          result |-> out.result]
        /\ UNCHANGED << mvars, avars, tvars, other, cli, yvars >>

HelperNext == \E lst \in Lists, chunk_size \in Sizes : ChunkList(lst, chunk_size)

----------------------------------------------------------------------------
(* helpers.py: safe_divide *)

\* The arguments of safe_divide: numbers, float('nan'), float('inf'), and a
\* value whose str() is not a number.
Num(x)  == [kind |-> "num", val |-> x]
NotANumber == [kind |-> "nan", val |-> Zero]
Infinity   == [kind |-> "inf", val |-> Zero]
Text       == [kind |-> "text", val |-> Zero]
None       == [kind |-> "none", val |-> Zero]
DivideArgs ==
    { Num(R(10)), Num(R(2)), Num(R(1)), Num(Zero), Num(R(-3)), NotANumber,
      Infinity, Text }

\* No call of safe_divide has been made.
NoDivide ==
    [op |-> "init", numerator |-> None, denominator |-> None,
     default |-> None, raised |-> "none", result |-> None]

\* Decimal(str(x)) raises decimal.InvalidOperation, an ArithmeticError, when
\* the string is not a number; 'nan' and 'inf' are numbers to Decimal.
DecimalRaises(x) == IF x.kind = "text" THEN "InvalidOperation" ELSE "none"

\* numerator_decimal / denominator_decimal for a denominator that is not 0:
\* NaN when an operand is NaN, InvalidOperation for Infinity / Infinity,
\* (signed) Infinity or 0 when one operand is infinite.
DecimalDivide(n, d) ==
    IF n.kind = "nan" \/ d.kind = "nan"
    THEN [raised |-> "none", result |-> NotANumber]
    ELSE IF n.kind = "inf" /\ d.kind = "inf"
    THEN [raised |-> "InvalidOperation", result |-> None]
    ELSE IF n.kind = "inf" THEN [raised |-> "none", result |-> Infinity]
    ELSE IF d.kind = "inf" THEN [raised |-> "none", result |-> Num(Zero)]
    ELSE [raised |-> "none", result |-> Num(RDiv(n.val, d.val))]

\* safe_divide: both arguments are converted, a zero denominator gives the
\* default, and the handler gives the default for ValueError and TypeError.
safe_divide(numerator, denominator, default) ==
    LET body ==
            IF DecimalRaises(numerator) # "none"
            THEN [raised |-> DecimalRaises(numerator), result |-> None]
            ELSE IF DecimalRaises(denominator) # "none"
            THEN [raised |-> DecimalRaises(denominator), result |-> None]
            ELSE IF denominator.kind = "num" /\ denominator.val = Zero
            THEN [raised |-> "none", result |-> default]
            ELSE DecimalDivide(numerator, denominator)
    IN  IF body.raised \in { "ValueError", "TypeError" }
        THEN [raised |-> "none", result |-> default]
        ELSE body

SafeDivide(numerator, denominator, default) ==
    LET out == safe_divide(numerator, denominator, default)
    IN  /\ divide_call' = [op |-> "safe_divide", numerator |-> numerator,
                           denominator |-> denominator, default |-> default,
                           raised |-> out.raised, result |-> out.result]
        /\ UNCHANGED << mvars, avars, tvars, other, cli, chunk_call, retry,
                        legacy >>

DivideNext ==
    \E numerator \in DivideArgs, denominator \in DivideArgs,
       default \in { Num(Zero), None } : SafeDivide(numerator, denominator, default)

----------------------------------------------------------------------------
(* decorators.py: retry_on_failure *)

\* No wrapper has been called.
NoRetry ==
    [pc |-> "idle", max_retries |-> 0, delay |-> Zero, backoff_factor |-> Zero,
     attempt |-> 0, current_delay |-> Zero, log |-> << >>, waits |-> << >>,
     outcome |-> "none"]

\* The parameters of the decorator the model wraps a function with.
MaxRetries == 3

\* A test for the last attempt that lets the loop run out.
LastAttempt_OneMore(attempt, max_retries) == attempt = max_retries + 1

\* if attempt == max_retries: raise
LastAttempt(attempt, max_retries) == attempt = max_retries

\* wrapper is called: current_delay = delay, and the loop over
\* range(max_retries + 1) starts; it is empty for a negative max_retries,
\* and the wrapper then returns None.
RetryCall(max_retries, delay, backoff_factor) ==
    /\ retry.pc = "idle"
    /\ retry' = [pc |-> IF 0 < max_retries + 1 THEN "attempt" ELSE "idle",
                 max_retries |-> max_retries, delay |-> delay,
                 backoff_factor |-> backoff_factor, attempt |-> 0,
                 current_delay |-> delay, log |-> << >>, waits |-> << >>,
                 outcome |-> IF 0 < max_retries + 1 THEN "running"
                             ELSE "returned"]
    /\ UNCHANGED << mvars, avars, tvars, other, cli, chunk_call, divide_call,
                    legacy >>

\* One round of the loop: func is invoked and returns ("ok"), raises an
\* exception of the configured tuple ("listed") or raises another one
\* ("unlisted"). Its result is returned; an
\* exception outside the tuple propagates; one of the tuple is raised again
\* on the last attempt, and otherwise the wrapper sleeps current_delay,
\* multiplies it by backoff_factor and goes on, the loop ending with
\* return None when the range is exhausted.
RetryAttempt(result) ==
    /\ retry.pc = "attempt"
    /\ LET log == Append(retry.log, result)
       IN  retry' =
             IF result = "ok"
             THEN [retry EXCEPT !.log = log, !.pc = "idle",
                                !.outcome = "returned"]
             ELSE IF result = "unlisted"
                     \/ LastAttempt(retry.attempt, retry.max_retries)
             THEN [retry EXCEPT !.log = log, !.pc = "idle",
                                !.outcome = "raised"]
             ELSE [retry EXCEPT
                     !.log = log,
                     !.waits = Append(@, retry.current_delay),
                     !.current_delay = RMul(@, retry.backoff_factor),
                     !.attempt = @ + 1,
                     !.pc = IF retry.attempt + 1 < retry.max_retries + 1
                            THEN "attempt" ELSE "idle",
                     !.outcome = IF retry.attempt + 1 < retry.max_retries + 1
                                 THEN "running" ELSE "returned"]
    /\ UNCHANGED << mvars, avars, tvars, other, cli, chunk_call, divide_call,
                    legacy >>

RetryNext ==
    \/ \E max_retries \in (-1)..MaxRetries, delay \in { R(1), Frac(1, 2) },
          backoff_factor \in { R(2), R(1) } :
          RetryCall(max_retries, delay, backoff_factor)
    \/ \E result \in { "ok", "listed", "unlisted" } : RetryAttempt(result)

----------------------------------------------------------------------------
(* main/Env.py: the legacy TradingEnv *)

\* The legacy environment after __init__: reset has not run, so it has no
\* balance and no current_step yet. held counts the units bought and not
\* yet sold since the reset; the code keeps no such field.
LegacyEnv(ps, ib) ==
    [prices |-> ps, initial_balance |-> ib, started |-> FALSE,
     balance |-> Zero, current_step |-> 0, held |-> Zero, op |-> "init",
     action_type |-> 0, error |-> FALSE, reward |-> Zero, done |-> FALSE,
     gain |-> Zero, had |-> Zero]

NoLegacy == LegacyEnv(<< >>, Zero)

LegacyParams ==
    { LegacyEnv(<< R(2), R(3), R(1) >>, R(10)),
      LegacyEnv(<< R(100), R(110) >>, R(10000)),
      LegacyEnv(<< R(4), R(3) >>, R(10)) }

\* balance // price
FloorDiv(a, b) ==
    LET q == RDiv(a, b) IN R(IF q[1] >= 0 THEN q[1] \div q[2]
                             ELSE -((-q[1] + q[2] - 1) \div q[2]))

LegacyReset ==
    /\ legacy.prices # << >>
    /\ legacy' = [legacy EXCEPT !.started = TRUE,
                                !.balance = legacy.initial_balance,
                                !.current_step = 0, !.held = Zero,
                                !.op = "reset", !.action_type = 0,
                                !.error = FALSE, !.reward = Zero,
                                !.done = FALSE, !.gain = Zero, !.had = Zero]
    /\ UNCHANGED << mvars, avars, tvars, other, cli, chunk_call, divide_call,
                    retry >>

\* step: self.balance does not exist before reset (AttributeError) and
\* prices[current_step] raises IndexError past the series; otherwise the
\* action is applied with asset_value = balance / price.
LegacyStep(action_type, action_amount) ==
    /\ legacy.prices # << >>
    /\ IF ~legacy.started \/ legacy.current_step >= Len(legacy.prices)
       THEN legacy' = [legacy EXCEPT !.op = "step", !.error = TRUE,
                                     !.action_type = action_type,
                                     !.reward = Zero, !.gain = Zero,
                                     !.had = legacy.held]
       ELSE LET price       == legacy.prices[legacy.current_step + 1]
                asset_value == RDiv(legacy.balance, price)
                bought      == RMin(action_amount,
                                    FloorDiv(legacy.balance, price))
                sold        == RMin(action_amount, asset_value)
                balance1    == IF action_type = 1
                               THEN RSub(legacy.balance, RMul(bought, price))
                               ELSE IF action_type = 2
                               THEN RAdd(legacy.balance, RMul(sold, price))
                               ELSE legacy.balance
                reward1     == IF action_type = 1
                               THEN RSub(Zero, RMul(bought, price))
                               ELSE IF action_type = 2
                               THEN RMul(sold, price)
                               ELSE Zero
                held1       == IF action_type = 1
                               THEN RAdd(legacy.held, bought)
                               ELSE IF action_type = 2
                               THEN RMax(Zero, RSub(legacy.held, sold))
                               ELSE legacy.held
            IN  legacy' = [legacy EXCEPT
                             !.balance = balance1,
                             !.current_step = @ + 1,
                             !.held = held1,
                             !.op = "step", !.error = FALSE,
                             !.action_type = action_type,
                             !.reward = reward1,
                             !.done = RLe(balance1, Zero)
                                      \/ legacy.current_step + 1
                                           >= Len(legacy.prices),
                             !.gain = RSub(balance1, legacy.balance),
                             !.had = RMul(legacy.held, price)]
    /\ UNCHANGED << mvars, avars, tvars, other, cli, chunk_call, divide_call,
                    retry >>

LegacyNext ==
    \/ LegacyReset
    \/ \E action_type \in { HOLD, BUY, SELL },
          action_amount \in { Zero, R(2), R(5) } :
          LegacyStep(action_type, action_amount)

\* No helper has been called and there is no legacy environment.
HelpersIdle ==
    divide_call = NoDivide /\ retry = NoRetry /\ legacy = NoLegacy

\* There is one bot, no command runs and no helper has been called.
RestIdle ==
    other = NoOther /\ cli = NoRun /\ chunk_call = NoChunk /\ HelpersIdle

\* train_episode is called again and again, and the bot is reset between
\* episodes.
TrainResetNext ==
    \/ TrainStart /\ UNCHANGED xvars
    \/ TrainAct /\ UNCHANGED xvars
    \/ TrainStep /\ UNCHANGED xvars
    \/ TrainLearn /\ UNCHANGED xvars
    \/ TrainFinish /\ UNCHANGED xvars
    \/ /\ train.pc = "idle" /\ train.outcome # "none" /\ a_call.op # "reset"
       /\ ResetBot
       /\ UNCHANGED xvars

----------------------------------------------------------------------------
(* Specifications *)

\* The environment and the bot of the command line's train command.
DefaultEnv ==
    MkEnv(<< R(100), R(110), R(105), R(120) >>, R(10000), R(100), R(100),
          Frac(1, 2000))
DefaultBot ==
    MkBot(NoN, MkConfig(Frac(1, 2), Frac(3, 5), Frac(1, 10), Frac(199, 200),
                        Frac(1, 100), 10000), 10)

\* The environment runs; the bot stays as constructed.
Init ==
    (\E p \in EnvParams : EnvInitWith(p)) /\ BotInitWith(DefaultBot) /\ RestIdle
Next ==
    \/ Reset /\ UNCHANGED << tvars, xvars >>
    \/ Step /\ UNCHANGED << tvars, xvars >>
Spec == Init /\ [][Next]_vars

\* The bot runs; the environment stays as constructed.
BotInit ==
    EnvInitWith(DefaultEnv) /\ (\E p \in BotParams : BotInitWith(p)) /\ RestIdle
BotSpec == BotInit /\ [][BotNext]_vars

ReloadSpec == BotInit /\ [][ReloadNext]_vars

\* train_episode is called again and again on an environment and a bot.
TrainInit ==
    (\E p \in TrainParams : EnvInitWith(p.env) /\ BotInitWith(p.bot)) /\ RestIdle
TrainSpec == TrainInit /\ [][TrainNext]_vars

\* train_episode and reset, on the pairs whose series ends before the step
\* ceiling.
TrainResetInit ==
    /\ \E p \in { q \in TrainParams : Len(q.env.prices) < StepCeiling } :
          EnvInitWith(p.env) /\ BotInitWith(p.bot)
    /\ RestIdle
TrainResetSpec == TrainResetInit /\ [][TrainResetNext]_vars

BufferInit ==
    /\ EnvInitWith(DefaultEnv)
    /\ \E p \in BufferParams : BotInitWith(p)
    /\ RestIdle
BufferSpec == BufferInit /\ [][BufferNext]_vars

SnapshotSpec == BotInit /\ [][SnapshotNext]_vars

\* decay_epsilon is called as long as the model allows it.
DecayInit ==
    /\ EnvInitWith(DefaultEnv)
    /\ \E p \in DecayParams : BotInitWith(p)
    /\ RestIdle
DecaySpec == DecayInit /\ [][DecayNext]_vars /\ WF_vars(DecayCall)

\* Two bots, constructed from the same config object or from two.
PairInit ==
    /\ EnvInitWith(DefaultEnv)
    /\ \E p \in BotParams : BotInitWith(p)
    /\ \E ref \in { "same", "own" } : other = OtherBot(ref)
    /\ cli = NoRun /\ chunk_call = NoChunk /\ HelpersIdle
PairSpec == PairInit /\ [][PairNext]_vars

\* The command train, past its setup, for each number of episodes.
CliInit ==
    /\ \E p \in TrainParams : EnvInitWith(p.env) /\ BotInitWith(p.bot)
    /\ \E episodes \in CliEpisodes : cli = CliRun(episodes)
    /\ other = NoOther /\ chunk_call = NoChunk /\ HelpersIdle
CliSpec == CliInit /\ [][CliNext]_vars

\* chunk_list is called again and again.
HelperInit == EnvInitWith(DefaultEnv) /\ BotInitWith(DefaultBot) /\ RestIdle
HelperSpec == HelperInit /\ [][HelperNext]_vars

\* safe_divide is called again and again.
DivideSpec == HelperInit /\ [][DivideNext]_vars

\* A wrapped function is called again and again.
RetrySpec == HelperInit /\ [][RetryNext]_vars

\* The legacy environment is reset and stepped, with amounts of the action
\* space MultiDiscrete([3, max(max_buy, max_sell)]).
LegacySpec ==
    /\ EnvInitWith(DefaultEnv) /\ BotInitWith(DefaultBot)
    /\ other = NoOther /\ cli = NoRun /\ chunk_call = NoChunk
    /\ divide_call = NoDivide /\ retry = NoRetry
    /\ legacy \in LegacyParams
    /\ [][LegacyNext]_vars

----------------------------------------------------------------------------
(* Properties of TradingEnv, checked under Spec *)

Scenario ==
    /\ prices = << R(100), R(110), R(105), R(120) >>
    /\ initial_balance = R(1000)
    /\ max_buy = R(100)
    /\ max_sell = R(100)
    /\ trading_fee = Zero
AfterBuy == history = << << BUY, R(5) >> >>
AfterHold ==
    Len(history) = 2 /\ history[1] = << BUY, R(5) >> /\ history[2][1] = HOLD
AfterSell ==
    /\ Len(history) = 3
    /\ history[1] = << BUY, R(5) >>
    /\ history[2][1] = HOLD
    /\ history[3] = << SELL, R(5) >>
\* The last call is the step that succeeded last (no rejected step since).
Returned == m_call.op = "step" /\ ~m_call.error

C3_ResetRestores ==
    m_call.op = "reset" =>
        /\ balance = initial_balance
        /\ position_size = Zero
        /\ current_step = 0
        /\ total_trades = 0
        /\ total_fees = Zero
        /\ observation = << initial_balance, Zero, Zero, prices[1] >>

\* A reset issued after an episode that traded and was done.
C3_Witness == m_call.op = "reset" /\ m_call.dirty /\ m_call.done

\* C4: a step whose amount is negative or whose action type is unknown
\* raises, and leaves balance, position_size, the step index, the trade
\* counter and the fees as they were.
BadAction(c) ==
    c.op = "step" /\ (RLt(c.action_amount, Zero) \/ c.action_type \notin { HOLD, BUY, SELL })

C4_RejectedStepKeepsState ==
    [][ BadAction(m_call') =>
          /\ m_call'.error
          /\ UNCHANGED << balance, position_size, current_step, total_trades,
                          total_fees >> ]_vars

\* A rejected step on an environment that has traded.
C4_Witness == BadAction(m_call) /\ m_call.error /\ total_trades > 0

\* The parameters the claim C18 wants rejected.
NotPositive(p) ==
    \/ Len(p.prices) = 0
    \/ \E i \in 1..Len(p.prices) : RLe(p.prices[i], Zero)
    \/ RLe(p.initial_balance, Zero)
    \/ RLe(p.max_buy, Zero)
    \/ RLe(p.max_sell, Zero)

\* C18: construction fails whenever the price series is empty or holds a
\* value <= 0, or initial_balance, max_buy or max_sell is <= 0; every
\* constructed environment has initial_balance, max_buy and max_sell > 0.
C18_ConstructionRejectsNonPositive ==
    /\ \A p \in EnvParams : NotPositive(p) => ~EnvAccepted(p)
    /\ RLt(Zero, initial_balance)
    /\ RLt(Zero, max_buy)
    /\ RLt(Zero, max_sell)

C19_WitnessBalance ==
    Returned /\ m_call.done /\ balance = Zero /\ current_step < Len(prices) - 1

StepDone == current_step' = current_step + 1

NothingToExecute(c) ==
    \/ c.action_type = HOLD
    \/ c.action_type \in { BUY, SELL } /\ c.action_amount = Zero
    \/ c.action_type = BUY /\ balance = Zero
    \/ c.action_type = SELL /\ position_size = Zero

ValueAt(bal, pos, p) == RAdd(bal, RMul(pos, p))

----------------------------------------------------------------------------
(* Properties of QLearningBot, checked under BotSpec and ReloadSpec *)

\* The step is a successful update_q_value call.
UpdateDone == calls' # calls /\ a_call'.op = "update" /\ ~a_call'.error

Distance(t, c) == RAbs(RSub(get_q_value(t, c.state, c.action), c.reward))

C8_DiscretizeInRange ==
    \A state \in Observations :
        \A i \in 1..Len(state) :
            /\ 0 <= _discretize_state(state, state_bins)[i]
            /\ _discretize_state(state, state_bins)[i] <= state_bins - 1

C17_EpisodeCompletes ==
    [][ train.pc # "idle" =>
          /\ train'.outcome # "raised"
          /\ train.pc = "step" => ~train.done /\ train.step_count < StepCeiling
          /\ IF train'.pc = "idle"
             THEN /\ train.done \/ train.step_count = StepCeiling
                  /\ config'.epsilon = DecayedEpsilon
                  /\ performance_history' =
                         Append(performance_history, train'.metrics)
             ELSE UNCHANGED << config, performance_history >> ]_vars

\* The configurations the claims C12 and C13 speak of.
AllowedConfig ==
    /\ RLe(Zero, config.epsilon) /\ RLe(config.epsilon, R(1))
    /\ RLt(Zero, config.epsilon_decay) /\ RLe(config.epsilon_decay, R(1))
    /\ RLe(Zero, config.epsilon_min)
DecayDone == calls' # calls /\ a_call'.op = "decay"

AtFloor == AllowedConfig => config.epsilon = config.epsilon_min
ConstructedWith ==
    CHOOSE p \in BotParams :
        /\ BotAccepted(p)
        /\ p.action_space = action_space
        /\ p.state_bins = state_bins
        /\ p.config.alpha = config.alpha
        /\ p.config.gamma = config.gamma
ResetDone == calls' # calls /\ a_call'.op = "reset"

\* C14: reset leaves the table, the experience buffer, the episode counter,
\* the cumulative reward and the performance history empty or zero, sets
\* epsilon to the value configured at construction, and every get_q_value
\* that follows returns 0.0.
C14_ResetRestoresInitial ==
    [][ ResetDone =>
          /\ q_table' = << >>
          /\ experience_buffer' = << >>
          /\ training_episodes' = 0
          /\ total_reward' = Zero
          /\ performance_history' = << >>
          /\ config'.epsilon = ConstructedWith.config.epsilon
          /\ \A state \in TrainStates, action \in TrainActions :
                CachedValue(cache', q_table', state, action) = Zero ]_vars

LoadDone == calls' # calls /\ a_call'.op = "load"
Complete(data) ==
    \A j \in 1..Len(SnapshotFields) : SnapshotFields[j] \in DOMAIN data

C10_GetActionNeverFails ==
    a_call.op = "get_action" =>
        /\ ~a_call.error
        /\ Len(a_call.result) = 2
        /\ a_call.result[1] \in { HOLD, BUY, SELL }
        /\ a_call.fallback => a_call.result = << HOLD, 0 >>

\* get_action fell back after range(self.action_space.n) raised.
C10_Witness == a_call.op = "get_action" /\ a_call.fallback /\ ~a_call.error

\* A call of the bot has just been made: the step is that call.
BotCall(op) == calls' = calls + 1 /\ a_call'.op = op

\* C24: across get_action, get_q_value, update_q_value and decay_epsilon
\* calls the set of (state, action) keys of the table only grows: no key is
\* removed, an update adds at most one key, and get_action and get_q_value
\* add none; reset and load_model are the calls that may remove keys.
C24_KeysOnlyGrow ==
    [][ /\ (calls' = calls + 1 /\ a_call'.op \notin { "reset", "load" })
            => /\ DOMAIN q_table \subseteq DOMAIN q_table'
               /\ Cardinality(DOMAIN q_table' \ DOMAIN q_table) <= 1
        /\ (BotCall("get_action") \/ BotCall("get") \/ BotCall("decay"))
            => DOMAIN q_table' = DOMAIN q_table ]_vars

\* An update has stored a second key next to the first.
C24_Witness ==
    /\ a_call.op = "update" /\ ~a_call.error
    /\ Cardinality(DOMAIN q_table) >= 2

\* C26: with epsilon = 0, two get_action calls with the same observation
\* and the same table contents return the same action, type and amount, the
\* type being the arg-max of the stored values (lowest index on ties).
StoredValues(state) ==
    [i \in 1..action_space.n |-> get_q_value(q_table, state, i - 1)]

Cleaned(state) ==
    [i \in 1..Len(state) |-> IF state[i] \in NonFinite THEN Zero ELSE state[i]]

----------------------------------------------------------------------------
(* Properties of two bots, checked under PairSpec *)

\* What the second bot's epsilon, table and buffer are.
OtherView ==
    [epsilon |-> OtherConfig.epsilon, q_table |-> other.q_table,
     experience_buffer |-> other.experience_buffer]

\* C25: two bots of one process share no mutable state, also when both are
\* constructed from the same config: an update, decay_epsilon, reset or
\* load_model on one bot leaves the other's epsilon, table and buffer as
\* they were.
C25_OtherBotUnchanged ==
    [][ (calls' = calls + 1
            /\ a_call'.op \in { "update", "decay", "reset", "load" })
        => OtherView' = OtherView ]_vars

----------------------------------------------------------------------------
(* Properties of the command train, checked under CliSpec *)

\* C28: a training run goes on with the next episode when an episode fails
\* with an error raised by step or by update; once the setup has succeeded
\* the run ends only after all requested episodes were attempted.
C28_RunAttemptsAllEpisodes ==
    cli.pc \in { "failed", "completed" } => cli.attempted = cli.episodes

----------------------------------------------------------------------------
(* Properties of chunk_list, checked under HelperSpec *)

RECURSIVE Flatten(_)
Flatten(chunks) ==
    IF chunks = << >> THEN << >> ELSE Head(chunks) \o Flatten(Tail(chunks))

\* C30: chunk_list(lst, n) with n >= 1 returns chunks whose concatenation
\* is lst, every chunk but the last has n elements and the last has between
\* 1 and n; an empty list gives no chunks; n <= 0 fails.
C30_ChunksPartition ==
    chunk_call.op = "chunk_list" =>
        LET lst    == chunk_call.lst
            n      == chunk_call.chunk_size
            result == chunk_call.result
        IN  /\ n <= 0 => chunk_call.error
            /\ n >= 1 =>
                  /\ ~chunk_call.error
                  /\ Flatten(result) = lst
                  /\ \A k \in 1..(Len(result) - 1) : Len(result[k]) = n
                  /\ result # << >> =>
                        /\ 1 <= Len(result[Len(result)])
                        /\ Len(result[Len(result)]) <= n
                  /\ lst = << >> => result = << >>

\* A list of three elements was cut into a chunk of two and a chunk of one.
C30_Witness ==
    /\ chunk_call.op = "chunk_list" /\ ~chunk_call.error
    /\ Len(chunk_call.lst) = 3 /\ chunk_call.chunk_size = 2
    /\ Len(chunk_call.result) = 2 /\ Len(chunk_call.result[2]) = 1

----------------------------------------------------------------------------
(* Properties of train_episode, checked under TrainSpec and TrainResetSpec *)

C38_RaisedUpdateNoEffect ==
    [][ (BotCall("update") /\ a_call'.error) =>
            UNCHANGED << q_table, experience_buffer, total_reward >> ]_vars

\* An update has raised.
C38_Witness == a_call.op = "update" /\ a_call.error /\ calls > 1

----------------------------------------------------------------------------
(* Properties of safe_divide, retry_on_failure and the legacy environment *)

\* C31: safe_divide never raises; it returns the quotient when both
\* arguments are numbers and the denominator is not 0, and the default
\* when the denominator is 0 or an argument is not a number.
C31_SafeDivideNeverRaises ==
    divide_call.op = "safe_divide" =>
        LET n == divide_call.numerator
            d == divide_call.denominator
        IN  /\ divide_call.raised = "none"
            /\ (n.kind = "num" /\ d.kind = "num" /\ d.val # Zero) =>
                  divide_call.result = Num(RDiv(n.val, d.val))
            /\ (n.kind = "text" \/ d.kind = "text"
                    \/ (d.kind = "num" /\ d.val = Zero)) =>
                  divide_call.result = divide_call.default

\* C35: a wrapper made by retry_on_failure(max_retries = n) invokes the
\* function at most n + 1 times; it returns after the first invocation that
\* succeeds, raises again the exception of the (n + 1)-th failed one, waits
\* delay * backoff_factor^k between attempts k + 1 and k + 2, and lets an
\* exception outside the tuple through at once.
RECURSIVE Power(_, _)
Power(x, k) == IF k = 0 THEN R(1) ELSE RMul(x, Power(x, k - 1))

C35_RetryBound ==
    LET n     == retry.max_retries
        log   == retry.log
        waits == retry.waits
    IN  retry.outcome # "none" =>
          /\ Len(log) <= (IF n + 1 > 0 THEN n + 1 ELSE 0)
          /\ \A i \in 1..(Len(log) - 1) : log[i] = "listed"
          /\ \A k \in 1..Len(waits) :
                waits[k] = RMul(retry.delay, Power(retry.backoff_factor, k - 1))
          /\ retry.outcome = "running" =>
                /\ Len(waits) = Len(log)
                /\ \A i \in 1..Len(log) : log[i] = "listed"
          /\ (retry.outcome = "returned" /\ n >= 0) =>
                log[Len(log)] = "ok" /\ Len(waits) = Len(log) - 1
          /\ retry.outcome = "raised" =>
                /\ Len(waits) = Len(log) - 1
                /\ \/ log[Len(log)] = "unlisted"
                   \/ log[Len(log)] = "listed" /\ Len(log) = n + 1

\* The third attempt of a wrapper with two retries failed and its exception
\* was raised again after waits of 1/2 and 1.
C35_Witness ==
    /\ retry.outcome = "raised" /\ retry.max_retries = 2
    /\ retry.log = << "listed", "listed", "listed" >>
    /\ retry.waits = << Frac(1, 2), R(1) >>

\* C39: in the legacy environment a SELL adds to balance at most the value
\* of the units bought earlier and not yet sold, so a SELL with no BUY
\* before it leaves balance unchanged; balance never becomes negative.
C39_SellCreatesNoMoney ==
    /\ (legacy.op = "step" /\ ~legacy.error /\ legacy.action_type = SELL)
          => RLe(legacy.gain, legacy.had)
    /\ RLe(Zero, legacy.balance)

====
